---- MODULE Spec2Model ----
(***************************************************************************)
(* Model of fitness_tracker_app.py: the three JSON stores (weight log,     *)
(* workout log, profile), the form handlers that rewrite them, and the     *)
(* derived metrics computed from them.                                     *)
(*                                                                         *)
(* Units.  Every weight (body weight, lifted weight, e1rm, next_weight,    *)
(* goal weight, volume) is an integer number of hundredths of a kilogram:  *)
(* 83.25 kg is 8325, 20.0 kg is 2000.  round(x, 1) therefore yields a      *)
(* multiple of 10.  Strings that the code compares or parses (dates,       *)
(* week periods) are sequences of character codes.                         *)
(***************************************************************************)
EXTENDS Integers, Sequences, FiniteSets, TLC

VARIABLES
    weight_file,    \* decoded content of weight_data.json: a sequence of records
    workout_file,   \* decoded content of workout_data.json
    profile_file,   \* decoded content of profile_data.json
    screen,         \* per browser session: the page shown and its delete buttons
    exports,        \* names of the export files written to the working directory
    last,           \* the last script run: the widget that fired, its argument, and how
                    \* the run ended ("complete", "rerun" after st.rerun(), or an exception)
    cycle           \* per session: the append run in progress or last finished, with the
                    \* frame it loaded and the entry it appends

vars == <<weight_file, workout_file, profile_file, screen, exports, last, cycle>>

(***************************************************************************)
(* Bounds of the model.                                                    *)
(***************************************************************************)
MaxLog == 3         \* longest weight log and workout log explored

Sessions == {1, 2}  \* browser sessions (tabs) running the script

(***************************************************************************)
(* Character codes and the date strings of strftime('%Y-%m-%d').           *)
(***************************************************************************)
Zero == 48          \* code of '0'
Dash == 45          \* code of '-'
Slash == 47         \* code of '/'

Digit(n) == Zero + (n % 10)

\* date.strftime('%Y-%m-%d') of a calendar date <<year, month, day>>
strftime(d) ==
    << Digit(d[1] \div 1000), Digit(d[1] \div 100), Digit(d[1] \div 10), Digit(d[1]),
       Dash, Digit(d[2] \div 10), Digit(d[2]),
       Dash, Digit(d[3] \div 10), Digit(d[3]) >>

\* Python's str < str: lexicographic comparison of character codes
RECURSIVE StrLess(_, _)
StrLess(a, b) ==
    IF b = <<>> THEN FALSE
    ELSE IF a = <<>> THEN TRUE
    ELSE IF Head(a) # Head(b) THEN Head(a) < Head(b)
    ELSE StrLess(Tail(a), Tail(b))

StrLeq(a, b) == a = b \/ StrLess(a, b)

\* pd.to_datetime of a 'YYYY-MM-DD' string: parse the digits back
to_datetime(s) ==
    << (s[1] - Zero) * 1000 + (s[2] - Zero) * 100 + (s[3] - Zero) * 10 + (s[4] - Zero),
       (s[6] - Zero) * 10 + (s[7] - Zero),
       (s[9] - Zero) * 10 + (s[10] - Zero) >>

\* days since 1970-01-01 of a proleptic Gregorian date
DaysFromCivil(d) ==
    LET y   == IF d[2] <= 2 THEN d[1] - 1 ELSE d[1]
        era == y \div 400
        yoe == y - era * 400
        mp  == IF d[2] > 2 THEN d[2] - 3 ELSE d[2] + 9
        doy == (153 * mp + 2) \div 5 + d[3] - 1
        doe == yoe * 365 + yoe \div 4 - yoe \div 100 + doy
    IN  era * 146097 + doe - 719468

\* the calendar date of a day number
CivilFromDays(n) ==
    LET z   == n + 719468
        era == z \div 146097
        doe == z - era * 146097
        yoe == (doe - doe \div 1460 + doe \div 36524 - doe \div 146096) \div 365
        doy == doe - (365 * yoe + yoe \div 4 - yoe \div 100)
        mp  == (5 * doy + 2) \div 153
        dd  == doy - (153 * mp + 2) \div 5 + 1
        mm  == IF mp < 10 THEN mp + 3 ELSE mp - 9
        yy  == yoe + era * 400
    IN  << IF mm <= 2 THEN yy + 1 ELSE yy, mm, dd >>

\* variant: weeks that start on Sunday
Weekday_sunday_first(d) == (DaysFromCivil(d) + 4) % 7

\* Timestamp.weekday(): Monday is 0, Sunday is 6 (1970-01-01 was a Thursday)
Weekday(d) == (DaysFromCivil(d) + 3) % 7

\* str(Timestamp.to_period('W')): the week ending on Sunday that holds the date,
\* printed as 'start/end'
WeekPeriod(d) ==
    LET start == DaysFromCivil(d) - Weekday(d)
    IN  strftime(CivilFromDays(start)) \o <<Slash>> \o strftime(CivilFromDays(start + 6))

(***************************************************************************)
(* The pandas operations the handlers use.  A DataFrame is a sequence of   *)
(* rows; a row carries its index label (idx) and its record (rec).         *)
(***************************************************************************)
Labels(df) == {df[i].idx : i \in DOMAIN df}

\* pd.DataFrame(data): the records in file order under a fresh RangeIndex 0..n-1
DataFrame(data) == [i \in 1..Len(data) |-> [idx |-> i - 1, rec |-> data[i]]]

\* df.to_dict('records'): the records in row order, the index labels dropped
to_dict(df) == [i \in 1..Len(df) |-> df[i].rec]

Permutations_(n) == {p \in [1..n -> 1..n] : \A i, j \in 1..n : p[i] = p[j] => i = j}

\* variant: the new entry replaces the frame instead of extending it
concat_replace(df, entry) == <<[idx |-> 0, rec |-> entry]>>

\* pd.concat([df, new_entry], ignore_index=True): append and relabel 0..n
concat(df, entry) ==
    [i \in 1..(Len(df) + 1) |->
        [idx |-> i - 1, rec |-> IF i <= Len(df) THEN df[i].rec ELSE entry]]

\* variant: the sort is forgotten and the frame is saved in insertion order
sort_values_skipped(df) == {df}

\* the orders df.sort_values('date') may return: rows (labels kept) by date
\* string, ascending; the default sort kind is not stable, so rows of equal
\* date may come out in any order
sort_values(df) ==
    { [i \in 1..Len(df) |-> df[p[i]]] :
        p \in { q \in Permutations_(Len(df)) :
                  \A i \in 1..(Len(df) - 1) : StrLeq(df[q[i]].rec.date, df[q[i + 1]].rec.date) } }

\* variant: the label is taken as a position of the descending display order
drop_display_position(df, label) == SelectSeq(df, LAMBDA r : r.idx # Len(df) - 1 - label)

\* df.drop(label): the rows whose label differs (pandas raises KeyError for a
\* label that is not in the index; the handler passes rendered labels only)
drop(df, label) == SelectSeq(df, LAMBDA r : r.idx # label)

(***************************************************************************)
(* The stores: each JSON file is read and rewritten whole.                 *)
(***************************************************************************)
load_weight_data == DataFrame(weight_file)

load_workout_data == DataFrame(workout_file)

load_profile == profile_file

save_weight_data(df) == weight_file' = to_dict(df)

save_workout_data(df) == workout_file' = to_dict(df)

\* variant: the store checks the widget ranges and keeps the old record otherwise
save_profile_validating(profile) ==
    IF /\ profile.age \in 15..100
       /\ profile.weight \in 4000..20000
       /\ profile.height \in 100..250
       /\ profile.goal_weight \in 4000..20000
    THEN profile_file' = profile
    ELSE UNCHANGED profile_file

\* save_profile: json.dump of whatever record it is given
save_profile(profile) == profile_file' = profile

\* the profile written by init_data_files when profile_data.json is missing
DefaultAge == 36
DefaultWeight == 8325
DefaultHeight == 173
DefaultGoal == 9500

DefaultProfile ==
    [name |-> "", age |-> DefaultAge, weight |-> DefaultWeight, height |-> DefaultHeight,
     goal_weight |-> DefaultGoal, experience |-> "Beginner"]

(***************************************************************************)
(* The derived metrics of the workout form.                                *)
(***************************************************************************)
\* round(num/den, 1) in hundredths: the nearest multiple of 10.  When num/den
\* lies exactly halfway, the binary representation of the float decides the
\* direction (round(6.0 * 1.025, 1) is 6.1 but round(70.0 * 1.025, 1) is 71.8),
\* so both neighbours are possible results.
round1(num, den) ==
    LET f == num \div (10 * den)
        r == num - f * 10 * den
    IN  IF 2 * r < 10 * den THEN {10 * f}
        ELSE IF 2 * r > 10 * den THEN {10 * (f + 1)}
        ELSE {10 * f, 10 * (f + 1)}

\* variant: floor division reps // 30
e1rm_floor_division(weight, reps) == round1(weight * (1 + reps \div 30), 1)

\* e1rm = weight * (1 + reps / 30), rounded
e1rm(weight, reps) == round1(weight * (30 + reps), 30)

\* variant: the increase branch stops below rpe 8
next_weight_strict(weight, rpe) ==
    IF rpe < 8 THEN round1(weight * 1025, 1000)
    ELSE IF rpe = 9 THEN round1(weight, 1)
    ELSE round1(weight * 95, 100)

\* the RPE autoregulation of next_weight, rounded
next_weight(weight, rpe) ==
    IF rpe <= 8 THEN round1(weight * 1025, 1000)
    ELSE IF rpe = 9 THEN round1(weight, 1)
    ELSE round1(weight * 95, 100)

volume(sets, reps, weight) == sets * reps * weight

(***************************************************************************)
(* Widget ranges of the forms.                                             *)
(***************************************************************************)
MinBodyWeight == 4000   \* "Weight (kg)" of the weight form, min_value=40.0
MaxBodyWeight == 20000  \* max_value=200.0
MinSets == 1
MaxSets == 10
MinReps == 1
MaxReps == 50
MinLift == 0            \* "Weight (kg)" of the workout form, min_value=0.0
MaxLift == 50000        \* max_value=500.0
MinRpe == 1
MaxRpe == 10
MinAge == 15
MaxAge == 100
MinHeight == 100
MaxHeight == 250

Experience == {"Beginner", "Intermediate", "Advanced"}

\* the exercise library of the workout form
exercises ==
    {"Barbell Squat", "Deadlift", "Bench Press", "Overhead Press", "Barbell Row",
     "Incline Dumbbell Press", "Dumbbell Row", "Lat Pulldown", "Pull-ups",
     "Barbell Curl", "Tricep Pushdown", "Romanian Deadlift", "Leg Press",
     "Bulgarian Split Squat", "Face Pulls", "Dips", "Leg Curl", "Calf Raise",
     "Hammer Curl", "Overhead Tricep Extension"}

\* the pages of the sidebar radio; the first one is selected in a new session
Pages ==
    {"Dashboard", "Log Weight", "Log Workout", "Workout Schedule",
     "Progress Charts", "Profile", "Export Data"}

(***************************************************************************)
(* Script runs.  Every interaction of a session runs the script from the   *)
(* top: it loads the three stores, executes the selected page (with the    *)
(* handler of the widget that fired) and leaves the page on the screen.    *)
(***************************************************************************)
\* what a run that reaches the end of page `page` leaves on the screen: the
\* Weight History loop renders one delete button per row of the loaded log
Render(page, df) ==
    [page |-> page, buttons |-> IF page = "Log Weight" THEN Labels(df) ELSE {}]

NoArg == 0 - 1

Run(op, idx, outcome) == [op |-> op, idx |-> idx, outcome |-> outcome]

Init ==
    /\ weight_file = <<>>
    /\ workout_file = <<>>
    /\ profile_file = DefaultProfile
    /\ screen = [s \in Sessions |-> Render("Dashboard", <<>>)]
    /\ exports = {}
    /\ last = Run("start", NoArg, "complete")
    /\ cycle = [s \in Sessions |-> [pc |-> "idle"]]

\* the sidebar radio is switched to another page: a run without handler
Navigate(s, page) ==
    /\ page \in Pages
    /\ page # screen[s].page
    /\ screen' = [screen EXCEPT ![s] = Render(page, load_weight_data)]
    /\ last' = Run("navigate", NoArg, "complete")
    /\ UNCHANGED <<weight_file, workout_file, profile_file, exports, cycle>>

\* weight_form submitted: append, sort, save, rerun
WeightSubmit(s, weight_date, weight_value, notes) ==
    /\ screen[s].page = "Log Weight"
    /\ Len(weight_file) < MaxLog
    /\ weight_value \in MinBodyWeight..MaxBodyWeight
    /\ LET new_entry == [date |-> strftime(weight_date), weight |-> weight_value, notes |-> notes]
       IN  \E weight_df \in sort_values(concat(load_weight_data, new_entry)) :
               /\ save_weight_data(weight_df)
               /\ screen' = [screen EXCEPT ![s] = Render("Log Weight", DataFrame(to_dict(weight_df)))]
    /\ last' = Run("weight_form", NoArg, "rerun")
    /\ UNCHANGED <<workout_file, profile_file, exports, cycle>>

\* variant: the handler runs for any clicked key, rendered or not
button_any(weight_df, idx) == TRUE

\* col4.button(key=f"del_weight_{idx}") inside the loop over the rows: True in
\* the run of a click only for a key that this run renders
button(weight_df, idx) == idx \in Labels(weight_df)

\* a delete button of the Weight History is clicked.  The run loads the log
\* and renders one button per row; the handler runs only if the clicked key
\* del_weight_<idx> is among them, else the click is dropped and the run ends.
DeleteClick(s, idx) ==
    /\ screen[s].page = "Log Weight"
    /\ idx \in screen[s].buttons
    /\ LET weight_df == load_weight_data
       IN  IF button(weight_df, idx)
           THEN /\ save_weight_data(drop(weight_df, idx))
                /\ screen' = [screen EXCEPT ![s] =
                                Render("Log Weight", DataFrame(to_dict(drop(weight_df, idx))))]
                /\ last' = Run("del_weight", idx, "rerun")
           ELSE /\ UNCHANGED weight_file
                /\ screen' = [screen EXCEPT ![s] = Render("Log Weight", weight_df)]
                /\ last' = Run("del_weight", idx, "complete")
    /\ UNCHANGED <<workout_file, profile_file, exports, cycle>>

\* the body of `if submitted:` of workout_form: derive, append, sort, save, rerun
WorkoutAppend(s, workout_date, exercise, sets, reps, weight, rpe, notes) ==
    /\ \E e \in e1rm(weight, reps), nw \in next_weight(weight, rpe) :
         LET new_entry ==
                 [date |-> strftime(workout_date), exercise |-> exercise, sets |-> sets,
                  reps |-> reps, weight |-> weight, rpe |-> rpe, e1rm |-> e,
                  next_weight |-> nw, volume |-> volume(sets, reps, weight), notes |-> notes]
         IN  \E workout_df \in sort_values(concat(load_workout_data, new_entry)) :
                 save_workout_data(workout_df)
    /\ screen' = [screen EXCEPT ![s] = Render("Log Workout", load_weight_data)]
    /\ last' = Run("workout_form", NoArg, "rerun")
    /\ UNCHANGED <<weight_file, profile_file, exports, cycle>>

\* workout_form submitted with the values its widgets allow
WorkoutSubmit(s, workout_date, exercise, sets, reps, weight, rpe, notes) ==
    /\ screen[s].page = "Log Workout"
    /\ Len(workout_file) < MaxLog
    /\ exercise \in exercises
    /\ sets \in MinSets..MaxSets
    /\ reps \in MinReps..MaxReps
    /\ weight \in MinLift..MaxLift
    /\ rpe \in MinRpe..MaxRpe
    /\ WorkoutAppend(s, workout_date, exercise, sets, reps, weight, rpe, notes)

\* profile_form submitted: the record is replaced wholesale, then rerun
ProfileSubmit(s, name, age, weight, height, goal_weight, experience) ==
    /\ screen[s].page = "Profile"
    /\ age \in MinAge..MaxAge
    /\ weight \in MinBodyWeight..MaxBodyWeight
    /\ height \in MinHeight..MaxHeight
    /\ goal_weight \in MinBodyWeight..MaxBodyWeight
    /\ experience \in Experience
    /\ save_profile([name |-> name, age |-> age, weight |-> weight, height |-> height,
                     goal_weight |-> goal_weight, experience |-> experience])
    /\ screen' = [screen EXCEPT ![s] = Render("Profile", load_weight_data)]
    /\ last' = Run("profile_form", NoArg, "rerun")
    /\ UNCHANGED <<weight_file, workout_file, exports, cycle>>

\* save_profile called with a record that no widget has bounded, as by any
\* caller of the store functions
SaveProfileCall(profile) ==
    /\ save_profile(profile)
    /\ last' = Run("save_profile", NoArg, "complete")
    /\ UNCHANGED <<weight_file, workout_file, screen, exports, cycle>>

\* "Download Excel File": the workbook is written to the working directory
ExportExcel(s) ==
    /\ screen[s].page = "Export Data"
    /\ exports' = exports \cup {"bodybuilding_data.xlsx"}
    /\ screen' = [screen EXCEPT ![s] = Render("Export Data", load_weight_data)]
    /\ last' = Run("export_excel", NoArg, "complete")
    /\ UNCHANGED <<weight_file, workout_file, profile_file, cycle>>

\* "Download CSV Files": a csv per non-empty log, and the archive
ExportCsv(s) ==
    /\ screen[s].page = "Export Data"
    /\ exports' = exports \cup {"bodybuilding_data.zip"}
                    \cup (IF load_weight_data # <<>> THEN {"weight_log.csv"} ELSE {})
                    \cup (IF load_workout_data # <<>> THEN {"workout_log.csv"} ELSE {})
    /\ screen' = [screen EXCEPT ![s] = Render("Export Data", load_weight_data)]
    /\ last' = Run("export_csv", NoArg, "complete")
    /\ UNCHANGED <<weight_file, workout_file, profile_file, cycle>>

(***************************************************************************)
(* Script runs of different sessions execute in separate threads and share *)
(* the files without a lock.  Here a form submission is two steps: the     *)
(* module-level load of the stores, and the handler that appends to the    *)
(* loaded frame, sorts, saves and reruns.                                  *)
(***************************************************************************)
\* variant: the handler reads the file again just before appending
weight_df_reloaded(s) == load_weight_data

\* weight_df of the run of session s: bound once, by the load at the top
weight_df_of(s) == cycle[s].df

\* workout_df of the run of session s
workout_df_of(s) == cycle[s].df

\* the run of a weight_form submission starts and loads the stores
BeginWeightSubmit(s, weight_date, weight_value, notes) ==
    /\ screen[s].page = "Log Weight"
    /\ cycle[s].pc # "loaded"
    /\ Len(weight_file) < MaxLog
    /\ weight_value \in MinBodyWeight..MaxBodyWeight
    /\ cycle' = [cycle EXCEPT ![s] =
                    [pc |-> "loaded", form |-> "weight_form", df |-> load_weight_data,
                     new_entry |-> [date |-> strftime(weight_date), weight |-> weight_value,
                                    notes |-> notes]]]
    /\ last' = Run("weight_form", NoArg, "loaded")
    /\ UNCHANGED <<weight_file, workout_file, profile_file, screen, exports>>

\* the handler of that run: append to the loaded frame, sort, save, rerun
EndWeightSubmit(s) ==
    /\ cycle[s].pc = "loaded"
    /\ cycle[s].form = "weight_form"
    /\ \E weight_df \in sort_values(concat(weight_df_of(s), cycle[s].new_entry)) :
           /\ save_weight_data(weight_df)
           /\ screen' = [screen EXCEPT ![s] = Render("Log Weight", DataFrame(to_dict(weight_df)))]
    /\ cycle' = [cycle EXCEPT ![s].pc = "done"]
    /\ last' = Run("weight_form", NoArg, "rerun")
    /\ UNCHANGED <<workout_file, profile_file, exports>>

\* the run of a workout_form submission starts and loads the stores
BeginWorkoutSubmit(s, workout_date, exercise, sets, reps, weight, rpe, notes) ==
    /\ screen[s].page = "Log Workout"
    /\ cycle[s].pc # "loaded"
    /\ Len(workout_file) < MaxLog
    /\ exercise \in exercises
    /\ sets \in MinSets..MaxSets
    /\ reps \in MinReps..MaxReps
    /\ weight \in MinLift..MaxLift
    /\ rpe \in MinRpe..MaxRpe
    /\ \E e \in e1rm(weight, reps), nw \in next_weight(weight, rpe) :
         cycle' = [cycle EXCEPT ![s] =
                     [pc |-> "loaded", form |-> "workout_form", df |-> load_workout_data,
                      new_entry |->
                          [date |-> strftime(workout_date), exercise |-> exercise,
                           sets |-> sets, reps |-> reps, weight |-> weight, rpe |-> rpe,
                           e1rm |-> e, next_weight |-> nw,
                           volume |-> volume(sets, reps, weight), notes |-> notes]]]
    /\ last' = Run("workout_form", NoArg, "loaded")
    /\ UNCHANGED <<weight_file, workout_file, profile_file, screen, exports>>

\* the handler of that run: append to the loaded frame, sort, save, rerun
EndWorkoutSubmit(s) ==
    /\ cycle[s].pc = "loaded"
    /\ cycle[s].form = "workout_form"
    /\ \E workout_df \in sort_values(concat(workout_df_of(s), cycle[s].new_entry)) :
           save_workout_data(workout_df)
    /\ screen' = [screen EXCEPT ![s] = Render("Log Workout", load_weight_data)]
    /\ cycle' = [cycle EXCEPT ![s].pc = "done"]
    /\ last' = Run("workout_form", NoArg, "rerun")
    /\ UNCHANGED <<weight_file, profile_file, exports>>

(***************************************************************************)
(* The metrics computed on demand from the loaded stores.                  *)
(***************************************************************************)
\* variant: the first row is taken
current_weight_first(weight_df) == weight_df[1].rec.weight

\* Dashboard: current_weight = weight_df.iloc[-1]['weight']
current_weight(weight_df) == weight_df[Len(weight_df)].rec.weight

\* Dashboard: weight_to_go = goal_weight - current_weight, or "No data"
weight_to_go(profile, weight_df) ==
    IF weight_df = <<>> THEN [data |-> FALSE]
    ELSE [data |-> TRUE, value |-> profile.goal_weight - current_weight(weight_df)]

\* Lifting Progress: the options of the "Select Exercise" box
exercise_options(workout_df) == {workout_df[i].rec.exercise : i \in DOMAIN workout_df}

\* Lifting Progress: what the tab shows for the rows of one exercise, sorted.
\* The percentage is the fraction num/den.  A first weight of 0 makes the
\* division fail: ZeroDivisionError on Python floats, inf or nan on numpy ones.
progress_stats(exercise_data) ==
    IF Len(exercise_data) > 1
    THEN LET first_w == exercise_data[1].rec.weight
             last_w  == exercise_data[Len(exercise_data)].rec.weight
         IN  IF first_w = 0
             THEN {[kind |-> "ZeroDivisionError"], [kind |-> "nonfinite"]}
             ELSE {[kind |-> "pct", num |-> (last_w - first_w) * 100, den |-> first_w,
                    sessions |-> Len(exercise_data)]}
    ELSE {[kind |-> "insufficient"]}

\* Lifting Progress: the outcomes possible for the selected exercise
lifting_progress(workout_df, exercise_select) ==
    UNION { progress_stats(exercise_data) :
              exercise_data \in sort_values(
                  SelectSeq(workout_df, LAMBDA r : r.rec.exercise = exercise_select)) }

\* Volume Analysis: the 'week' column
week_of(rec) == WeekPeriod(to_datetime(rec.date))

RECURSIVE SumVolume(_)
SumVolume(rows) ==
    IF rows = <<>> THEN 0 ELSE Head(rows).rec.volume + SumVolume(Tail(rows))

\* the keys of a groupby in ascending string order
RECURSIVE SortedKeys(_)
SortedKeys(keys) ==
    IF keys = {} THEN <<>>
    ELSE LET k == CHOOSE x \in keys : \A y \in keys : StrLeq(x, y)
         IN  <<k>> \o SortedKeys(keys \ {k})

\* Volume Analysis: workout_df.groupby('week')['volume'].sum().reset_index()
weekly_volume(workout_df) ==
    LET keys == SortedKeys({week_of(workout_df[i].rec) : i \in DOMAIN workout_df})
    IN  [k \in 1..Len(keys) |->
            [week |-> keys[k],
             volume |-> SumVolume(SelectSeq(workout_df, LAMBDA r : week_of(r.rec) = keys[k]))]]

(***************************************************************************)
(* Specifications.  The inputs of the forms are drawn from small sets.     *)
(***************************************************************************)
Monday1 == <<2024, 12, 30>>     \* Monday of ISO week 2025-W01
Sunday1 == <<2025, 1, 5>>       \* Sunday of the same week
Monday2 == <<2025, 1, 6>>       \* Monday of ISO week 2025-W02

Dates == {Monday1, Sunday1, Monday2}

\* <<sets, reps, weight, rpe>> of the workout form
RawTuples == {<<3, 8, 2000, 8>>, <<3, 8, 2250, 9>>, <<1, 5, 0, 10>>}

Goals == {DefaultGoal, 9000}

\* the single user of the application, every page and every handler
User == 1

UserNext ==
    \/ \E page \in Pages : Navigate(User, page)
    \/ \E d \in Dates : WeightSubmit(User, d, DefaultWeight, "")
    \/ \E idx \in 0..(MaxLog - 1) : DeleteClick(User, idx)
    \/ \E d \in Dates : WorkoutSubmit(User, d, "Bench Press", 3, 8, 2000, 8, "")
    \/ \E g \in Goals :
          ProfileSubmit(User, "", DefaultAge, DefaultWeight, DefaultHeight, g, "Beginner")
    \/ ExportExcel(User)
    \/ ExportCsv(User)

Next == UserNext

Spec == Init /\ [][Next]_vars

\* two browser sessions on the weight log, the profile and the dashboard
TabsNext ==
    \E s \in Sessions :
        \/ \E page \in {"Dashboard", "Log Weight", "Profile"} : Navigate(s, page)
        \/ \E d \in Dates, w \in {DefaultWeight, 8400} : WeightSubmit(s, d, w, "")
        \/ \E idx \in 0..(MaxLog - 1) : DeleteClick(s, idx)
        \/ \E g \in Goals :
              ProfileSubmit(s, "", DefaultAge, DefaultWeight, DefaultHeight, g, "Beginner")

SpecTabs == Init /\ [][TabsNext]_vars

\* the workout log and its charts
WorkoutNext ==
    \/ \E page \in {"Log Workout", "Progress Charts"} : Navigate(User, page)
    \/ \E d \in Dates, ex \in {"Bench Press", "Pull-ups"}, t \in RawTuples :
          WorkoutSubmit(User, d, ex, t[1], t[2], t[3], t[4], "")

SpecWorkout == Init /\ [][WorkoutNext]_vars

\* the derived fields of a first entry, over the whole range of the widgets
LiftSamples == {0, 25, 250, 600, 2000, 2225, 7000, 8325, 10000, MaxLift}

MetricsNext ==
    \/ Navigate(User, "Log Workout")
    \/ /\ workout_file = <<>>
       /\ \E sets \in MinSets..MaxSets, reps \in MinReps..MaxReps,
             weight \in LiftSamples, rpe \in MinRpe..MaxRpe :
             WorkoutSubmit(User, Monday1, "Bench Press", sets, reps, weight, rpe, "")

SpecMetrics == Init /\ [][MetricsNext]_vars

(***************************************************************************)
(* Properties.                                                             *)
(***************************************************************************)
\* the calendar day of a stored record
DayOf(rec) == DaysFromCivil(to_datetime(rec.date))

SortedByDate(log) == \A i \in 1..(Len(log) - 1) : DayOf(log[i]) <= DayOf(log[i + 1])

\* C1: after any sequence of weight appends, weight removals and workout
\* appends, the persisted weight log and the persisted workout log are each
\* sorted by date ascending: adjacent entries never go back in time.
C1_LogsSorted == SortedByDate(weight_file) /\ SortedByDate(workout_file)

C1_Witness ==
    /\ Len(weight_file) >= 2
    /\ Len(workout_file) >= 2
    /\ DayOf(weight_file[1]) < DayOf(weight_file[Len(weight_file)])
    /\ DayOf(workout_file[1]) < DayOf(workout_file[Len(workout_file)])

\* v is num/den rounded to one decimal place: a multiple of 0.1 kg that lies
\* within 0.05 kg of num/den
IsRounded1(v, num, den) ==
    /\ v % 10 = 0
    /\ 2 * (v * den - num) <= 10 * den
    /\ 2 * (num - v * den) <= 10 * den

\* C2: every stored workout entry has e1rm equal to weight * (1 + reps/30)
\* rounded to one decimal place and volume equal to sets * reps * weight.
C2_DerivedFields ==
    \A i \in 1..Len(workout_file) :
        LET r == workout_file[i]
        IN  /\ IsRounded1(r.e1rm, r.weight * (30 + r.reps), 30)
            /\ r.volume = r.sets * r.reps * r.weight

\* sets=3, reps=8, weight=20.0 is stored with e1rm=25.3 and volume=480.0
C2_Witness ==
    \E i \in 1..Len(workout_file) :
        LET r == workout_file[i]
        IN  r.sets = 3 /\ r.reps = 8 /\ r.weight = 2000 /\ r.e1rm = 2530 /\ r.volume = 48000

\* C3: every stored workout entry has next_weight equal to weight * 1.025
\* when rpe <= 8, to weight when rpe = 9 and to weight * 0.95 when rpe >= 10,
\* rounded to one decimal place; exactly one of the three cases applies.
C3_NextWeight ==
    \A i \in 1..Len(workout_file) :
        LET r == workout_file[i]
        IN  /\ r.rpe <= 8 => IsRounded1(r.next_weight, r.weight * 1025, 1000)
            /\ r.rpe = 9 => IsRounded1(r.next_weight, r.weight, 1)
            /\ r.rpe >= 10 => IsRounded1(r.next_weight, r.weight * 95, 100)
            /\ Cardinality({b \in {1, 2, 3} :
                    \/ b = 1 /\ r.rpe <= 8
                    \/ b = 2 /\ r.rpe = 9
                    \/ b = 3 /\ r.rpe >= 10}) = 1

\* the boundary rpe=8 at 20.0 kg is stored with next_weight=20.5
C3_Witness ==
    \E i \in 1..Len(workout_file) :
        LET r == workout_file[i]
        IN  r.rpe = 8 /\ r.weight = 2000 /\ r.next_weight = 2050

\* the sequence without its k-th element
RemoveAt(seq, k) == SubSeq(seq, 1, k - 1) \o SubSeq(seq, k + 1, Len(seq))

\* C4: a removal at a valid position of the loaded weight log removes exactly
\* that entry: the persisted log afterwards is the previous log with that
\* position deleted, the other entries unchanged and in the same order, and
\* the length one less.
C4_RemoveExactlyOne ==
    [][(last'.op = "del_weight" /\ last'.idx \in 0..(Len(weight_file) - 1))
          => /\ weight_file' = RemoveAt(weight_file, last'.idx + 1)
             /\ Len(weight_file') = Len(weight_file) - 1]_vars

\* a removal has left a log with entries before and after the removed position
C4_Witness ==
    /\ last.op = "del_weight"
    /\ last.outcome = "rerun"
    /\ last.idx = 1
    /\ Len(weight_file) >= 2

ProfileInRange(profile) ==
    /\ profile.age \in MinAge..MaxAge
    /\ profile.weight \in MinBodyWeight..MaxBodyWeight
    /\ profile.height \in MinHeight..MaxHeight
    /\ profile.goal_weight \in MinBodyWeight..MaxBodyWeight

\* the store functions called with arguments outside the widget ranges
ProfileArgs ==
    {DefaultProfile}
        \cup {[DefaultProfile EXCEPT !.age = a] : a \in {14, 101}}
        \cup {[DefaultProfile EXCEPT !.weight = w] : w \in {3999, 20001}}
        \cup {[DefaultProfile EXCEPT !.height = h] : h \in {99, 251}}
        \cup {[DefaultProfile EXCEPT !.goal_weight = g] : g \in {3999, 9000, 20001}}

RpeArgs == {0, MaxRpe, 11}

ApiNext ==
    \/ \E profile \in ProfileArgs : SaveProfileCall(profile)
    \/ /\ Len(workout_file) < MaxLog
       /\ \E rpe \in RpeArgs : WorkoutAppend(User, Monday1, "Bench Press", 3, 8, 2000, rpe, "")

SpecApi == Init /\ [][ApiNext]_vars

Contains(b, a) ==
    \E f \in [1..Len(a) -> 1..Len(b)] :
        /\ \A i, j \in 1..Len(a) : f[i] = f[j] => i = j
        /\ \A i \in 1..Len(a) : b[f[i]] = a[i]

\* C7: the workout log is append-only and its derived fields are frozen: in
\* every step of any handler on any store, each stored workout entry is still
\* in the persisted workout log with all its raw and derived fields unchanged,
\* and the log's length does not decrease.
C7_WorkoutAppendOnly ==
    [][/\ Len(workout_file') >= Len(workout_file)
       /\ Contains(workout_file', workout_file)]_vars

\* workouts are stored, and handlers of the other stores have run since
C7_Witness ==
    /\ Len(workout_file) >= 2
    /\ weight_file # <<>>
    /\ profile_file # DefaultProfile
    /\ "bodybuilding_data.zip" \in exports
    /\ last.op = "del_weight"
    /\ last.outcome = "rerun"

\* the positions of an exercise in the persisted workout log
PositionsOf(exercise) == {i \in 1..Len(workout_file) : workout_file[i].exercise = exercise}

\* C8 (as claimed): progress for an exercise with fewer than 2 entries yields
\* the insufficient-data outcome and evaluates no division; with 2 or more
\* entries the result is the percentage (last.weight - first.weight) /
\* first.weight * 100 over that exercise's entries ordered by date.
C8_ProgressOutcome ==
    \A exercise \in exercise_options(load_workout_data) :
        \A r \in lifting_progress(load_workout_data, exercise) :
            IF Cardinality(PositionsOf(exercise)) < 2
            THEN r.kind = "insufficient"
            ELSE /\ r.kind = "pct"
                 /\ \E i, j \in PositionsOf(exercise) :
                        /\ i # j
                        /\ \A k \in PositionsOf(exercise) :
                              /\ DayOf(workout_file[i]) <= DayOf(workout_file[k])
                              /\ DayOf(workout_file[k]) <= DayOf(workout_file[j])
                        /\ r.den = workout_file[i].weight
                        /\ r.num = (workout_file[j].weight - workout_file[i].weight) * 100

\* the ISO 8601 week <<year, week>> of a date: the week belongs to the year
\* of its Thursday
ISOWeek(d) ==
    LET n   == DaysFromCivil(d)
        wd  == ((n + 3) % 7) + 1
        thu == n - wd + 4
        y   == CivilFromDays(thu)[1]
    IN  <<y, (thu - DaysFromCivil(<<y, 1, 1>>)) \div 7 + 1>>

ISOWeekOf(rec) == ISOWeek(to_datetime(rec.date))

ISOWeekBefore(a, b) == a[1] < b[1] \/ (a[1] = b[1] /\ a[2] < b[2])

RECURSIVE VolumeOver(_)
VolumeOver(positions) ==
    IF positions = {} THEN 0
    ELSE LET i == CHOOSE x \in positions : TRUE
         IN  workout_file[i].volume + VolumeOver(positions \ {i})

RECURSIVE SumTotals(_)
SumTotals(totals) ==
    IF totals = <<>> THEN 0 ELSE Head(totals).volume + SumTotals(Tail(totals))

\* C9: weekly volume partitions the workout log by ISO calendar week: one
\* total per distinct week that has an entry, in week order, each total the
\* sum of volume over exactly the entries of that week, and the totals add up
\* to the volume of the whole log.
C9_WeeklyVolume ==
    LET totals == weekly_volume(load_workout_data)
        weeks  == {ISOWeekOf(workout_file[i]) : i \in 1..Len(workout_file)}
        WeekAt(k) == ISOWeek(to_datetime(SubSeq(totals[k].week, 1, 10)))
    IN  /\ Len(totals) = Cardinality(weeks)
        /\ \A k \in 1..Len(totals) :
              /\ WeekAt(k) \in weeks
              /\ totals[k].volume =
                    VolumeOver({i \in 1..Len(workout_file) : ISOWeekOf(workout_file[i]) = WeekAt(k)})
        /\ \A k \in 1..(Len(totals) - 1) : ISOWeekBefore(WeekAt(k), WeekAt(k + 1))
        /\ SumTotals(totals) = VolumeOver(1..Len(workout_file))

\* the charts are shown for a log of three entries that span two ISO weeks,
\* two of them in the same week
C9_Witness ==
    /\ screen[User].page = "Progress Charts"
    /\ Len(workout_file) = 3
    /\ Len(weekly_volume(load_workout_data)) = 2
    /\ \A k \in 1..2 : weekly_volume(load_workout_data)[k].volume > 0

\* C10: whenever the weight log is non-empty, the weight-to-goal of the
\* dashboard is goal_weight minus the weight of an entry whose date is the
\* maximum date of the log.
C10_WeightToGoal ==
    weight_file # <<>> =>
        LET r == weight_to_go(load_profile, load_weight_data)
        IN  /\ r.data
            /\ \E i \in 1..Len(weight_file) :
                  /\ \A j \in 1..Len(weight_file) : DayOf(weight_file[j]) <= DayOf(weight_file[i])
                  /\ r.value = profile_file.goal_weight - weight_file[i].weight

\* the dashboard is shown after a removal, for a log whose most recent entry
\* differs in weight from its oldest one, under a changed goal
C10_Witness ==
    /\ \E s \in Sessions : screen[s].page = "Dashboard"
    /\ Len(weight_file) >= 2
    /\ weight_file[1].weight # weight_file[Len(weight_file)].weight
    /\ DayOf(weight_file[1]) < DayOf(weight_file[Len(weight_file)])
    /\ profile_file.goal_weight # DefaultGoal

\* C12 (as claimed): whenever the percentage change of an exercise is
\* computed (the exercise has 2 or more entries), its divisor, the weight of
\* the first entry by date, is non-zero, for every log reachable by appends
\* of weights within the widget range.
C12_DivisorNonZero ==
    \A exercise \in exercise_options(load_workout_data) :
        \A exercise_data \in sort_values(
                SelectSeq(load_workout_data, LAMBDA r : r.rec.exercise = exercise)) :
            Len(exercise_data) > 1 => exercise_data[1].rec.weight # 0

\* two sessions whose append runs may interleave between load and save
OverlapNext ==
    \E s \in Sessions :
        \/ \E page \in {"Log Weight", "Log Workout"} :
              cycle[s].pc # "loaded" /\ Navigate(s, page)
        \/ \E d \in {Monday1, Monday2} : BeginWeightSubmit(s, d, DefaultWeight, "")
        \/ EndWeightSubmit(s)
        \/ BeginWorkoutSubmit(s, Monday1, "Bench Press", 3, 8, 2000, 8, "")
        \/ EndWorkoutSubmit(s)

SpecOverlap == Init /\ [][OverlapNext]_vars

\* the store a form writes
FileOf(form) == IF form = "weight_form" THEN weight_file ELSE workout_file

\* logs a and b hold the same entries with the same multiplicities
SameEntries(a, b) == Len(a) = Len(b) /\ Contains(a, b)

\* C11: load + append + save is not atomic.  When a run saves and the other
\* session's run on the same store loaded the same content and has saved
\* already (both loaded before either saved), the store afterwards holds the
\* loaded entries plus only the entry of the run that saved last: one of the
\* two appended entries is lost.  When nothing was saved between the load and
\* the save of a run, the store afterwards holds every entry it held before
\* plus the appended one.
C11_LostUpdate ==
    [][\A s \in Sessions :
          (cycle[s].pc = "loaded" /\ cycle'[s].pc = "done") =>
              LET base   == to_dict(cycle[s].df)
                  own    == cycle[s].new_entry
                  before == FileOf(cycle[s].form)
                  after  == (FileOf(cycle[s].form))'
              IN  /\ \A t \in Sessions \ {s} :
                        (/\ cycle[t].pc = "done"
                         /\ cycle[t].form = cycle[s].form
                         /\ cycle[t].df = cycle[s].df)
                            => /\ Len(after) = Len(base) + 1
                               /\ SameEntries(after, Append(base, own))
                  /\ base = before
                        => /\ Len(after) = Len(before) + 1
                           /\ SameEntries(after, Append(before, own))]_vars

\* both sessions loaded the same non-empty log, appended different entries
\* and saved: the log grew by one entry only
C11_Witness ==
    \E s, t \in Sessions :
        /\ s # t
        /\ cycle[s].pc = "done"
        /\ cycle[t].pc = "done"
        /\ cycle[s].form = cycle[t].form
        /\ cycle[s].df = cycle[t].df
        /\ cycle[s].df # <<>>
        /\ cycle[s].new_entry # cycle[t].new_entry
        /\ Len(FileOf(cycle[s].form)) = Len(cycle[s].df) + 1

====
